---------------------------- MODULE Spec2Model ----------------------------
(***************************************************************************)
(* A model of voilab-image (src/voilab-image.js): the upload operation,    *)
(* which runs one resize-and-store task per configured file under          *)
(* async.parallelLimit, and the four pure dimension planners.              *)
(*                                                                         *)
(* JavaScript values are encoded as follows.                               *)
(*   - an optional value is a sequence of length 0 (undefined) or 1;       *)
(*   - a string that the code takes apart or builds (a source path, a      *)
(*     mimetype, a name template, a filename) is a sequence of pieces;     *)
(*     the piece "image/" stands for that substring, "." for a dot;        *)
(*   - a value that is a number or something else (a file's width, its     *)
(*     adapt) is a record tagged with its kind: "num", "bool", "obj";      *)
(*   - a number produced by a division is kept exact as numerator and      *)
(*     denominator until Math.round, and the rounding of the doubles the   *)
(*     code computes is worked out from it.                                *)
(***************************************************************************)
EXTENDS Integers, Sequences, FiniteSets, TLC

VARIABLES
    globalConfig,   \* the configuration the service was built with
    called,         \* upload has been called
    source,         \* upload's source argument
    config,         \* upload's config argument
    type,           \* upload's local "type"
    pc,             \* per task: where its callback chain stands
    ops,            \* per task: the operations queued on image.batch()
    fname,          \* per task: the filename handed to the object storage
    images,         \* upload's local "images": key -> [url, filename]
    started,        \* async.parallelLimit: tasks taken from the list
    running,        \* async.parallelLimit: tasks started and not called back
    errored,        \* async.parallelLimit: a task has reported an error
    cbCalls,        \* the invocations of upload's cb, in order
    thrown,         \* the exception upload has thrown to its caller
    log,            \* per task: the calls it made and the errors it was given
    prev,           \* the filenames in the result map of an earlier, identical
                    \* call of upload
    geo             \* the planner call last made on its own, with its result

vars == <<globalConfig, called, source, config, type, pc, ops, fname, images,
          started, running, errored, cbCalls, thrown, log, prev, geo>>

uploadVars == <<globalConfig, called, source, config, type, pc, ops, fname,
                images, started, running, errored, cbCalls, thrown, log,
                prev>>

(***************************************************************************)
(* Bounds of the model.                                                    *)
(***************************************************************************)
MaxVariants == 3
MaxLimit == 2
MaxDim == 5

(***************************************************************************)
(* JavaScript values.                                                      *)
(***************************************************************************)
None == <<>>
Some(x) == <<x>>

\* truthiness of an optional number, boolean, or string (a sequence of pieces)
TruthyNum(o) == o # None /\ o[1] # 0
TruthyBool(o) == o # None /\ o[1]
TruthyStr(o) == o # None /\ o[1] # <<>>

\* a number, and the boolean false, as values
Num(n) == [kind |-> "num", v |-> n]
False == [kind |-> "bool", v |-> FALSE]

\* a value used as a number (crop_left + width): false counts as 0
ToNumber(x) == IF x.kind = "num" THEN x.v ELSE 0

\* truthiness of a value that is a number or a boolean
Truthy(x) == IF x.kind = "num" THEN x.v # 0 ELSE x.v

Max(a, b) == IF a > b THEN a ELSE b
Min(a, b) == IF a < b THEN a ELSE b

\* Math.round of the non-negative quotient n/d: halves round up; a division
\* by zero yields Infinity, or NaN for 0/0, and Math.round returns it as it is
Round(n, d) ==
    IF d = 0 THEN (IF n = 0 THEN "NaN" ELSE "Infinity")
    ELSE (2 * n + d) \div (2 * d)

(***************************************************************************)
(* The dimension planners.  iw and ih are image.width() and                *)
(* image.height().  A product of two integers divided once gives the       *)
(* double nearest to the exact quotient, which rounds as the exact         *)
(* quotient does (a half is a double).  getCropDimensions first rounds the *)
(* ratio iw / ih to a double of 53 bits and then multiplies or divides by  *)
(* it: when the exact result is a half, the error of the ratio decides     *)
(* whether the double falls below the half and Math.round goes down (image *)
(* 18x7, target 9x1: 9 / 2.5714285714285716 = 3.4999999999999996).         *)
(***************************************************************************)

\* the largest e with 2^e * d <= n, for n and d above 0
RECURSIVE Log2Floor(_, _)
Log2Floor(n, d) ==
    IF n >= 2 * d THEN Log2Floor(n, 2 * d) + 1
    ELSE IF n < d THEN Log2Floor(2 * n, d) - 1
    ELSE 0

\* (x * 2^s) % m
RECURSIVE ShiftMod(_, _, _)
ShiftMod(x, s, m) == IF s = 0 THEN x % m ELSE ShiftMod((2 * x) % m, s - 1, m)

RECURSIVE Pow2(_)
Pow2(e) == IF e = 0 THEN 1 ELSE 2 * Pow2(e - 1)

\* a * 2^s > b
ScaledAbove(a, s, b) == IF s >= 0 THEN a * Pow2(s) > b ELSE a > b * Pow2(- s)

\* what the division iw / ih leaves below the 53 bits of the double, in
\* units of 1/ih of its last bit: 0 when the double is exact, above ih/2
\* when the double is the next one up, below when it is the one below
RatioRest(iw, ih) == ShiftMod(iw, 52 - Log2Floor(iw, ih), ih)

\* the binary places between the last bit of the double iw / ih and the
\* largest error that still rounds to the half k + 1/2: the doubles below
\* a power of two, which the half is for k = 0, lie twice as close as those
\* above it, and allow half the error (image 1x98, target 0x49:
\* 49 * 0.01020408163265306 = 0.49999999999999994)
TieShift(iw, ih, k) ==
    Log2Floor(iw, ih) + 1 - Log2Floor(2 * k + 1, 2) + (IF k = 0 THEN 1 ELSE 0)

\* Math.round(h * ratio_img), ratio_img the double iw / ih (lines 142, 149)
RoundTimesRatio(h, iw, ih) ==
    IF iw = 0 \/ ih = 0 \/ h = 0 \/ (2 * h * iw) % (2 * ih) # ih
    THEN Round(h * iw, ih)
    ELSE LET k == (h * iw) \div ih
             r == RatioRest(iw, ih)
             s == TieShift(iw, ih, k)
         IN  IF r # 0 /\ 2 * r < ih /\ ScaledAbove(h * r, s, ih)
             THEN k ELSE k + 1

\* Math.round(w / ratio_img), ratio_img the double iw / ih (lines 142, 152)
RoundOverRatio(w, iw, ih) ==
    IF iw = 0 \/ ih = 0 \/ w = 0 \/ (2 * w * ih) % (2 * iw) # iw
    THEN Round(w * ih, iw)
    ELSE LET k == (w * ih) \div iw
             r == RatioRest(iw, ih)
             s == TieShift(iw, ih, k)
         IN  IF 2 * r > ih /\ ScaledAbove((2 * k + 1) * (ih - r), s, 2 * iw)
             THEN k ELSE k + 1

\* the code with the two branches exchanged
getCropDimensionsSwapped(iw, ih, width, height) ==
    IF iw * height > width * ih
    THEN [width |-> width, height |-> RoundOverRatio(width, iw, ih)]
    ELSE [width |-> RoundTimesRatio(height, iw, ih), height |-> height]

\* ratio_img > ratio_crop: h = height, w = h * ratio_img;
\* otherwise w = width, h = w / ratio_img
getCropDimensions(iw, ih, width, height) ==
    IF iw * height > width * ih
    THEN [width |-> RoundTimesRatio(height, iw, ih), height |-> height]
    ELSE [width |-> width, height |-> RoundOverRatio(width, iw, ih)]

\* width and height are reassigned in turn, as in the code: w0/h0 are the
\* values after the first "if" of a branch, the result follows the second
adaptDimensions(iw, ih, width, height) ==
    IF width * ih > iw * height
    THEN LET small == ih < height
             h0 == IF small THEN ih ELSE height
             w0 == IF small THEN iw ELSE width
         IN  IF ih > h0
             THEN [width |-> Round(iw * h0, ih), height |-> h0]
             ELSE [width |-> w0, height |-> h0]
    ELSE LET small == iw < width
             w0 == IF small THEN iw ELSE width
             h0 == IF small THEN ih ELSE height
         IN  IF iw >= w0
             THEN [width |-> w0, height |-> Round(ih * w0, iw)]
             ELSE [width |-> w0, height |-> h0]

\* the code without its clamp to the natural size
getDimensionsWidthMaxNoClamp(iw, ih, width) ==
    [width |-> width, height |-> Round(ih * width, iw)]

getDimensionsWidthMax(iw, ih, width) ==
    IF ih * width > ih * iw
    THEN [width |-> iw, height |-> ih]
    ELSE [width |-> width, height |-> Round(ih * width, iw)]

getDimensionsHeightMax(iw, ih, height) ==
    IF iw * height > iw * ih
    THEN [width |-> iw, height |-> ih]
    ELSE [width |-> Round(iw * height, ih), height |-> height]

(***************************************************************************)
(* upload: the source's type.                                              *)
(***************************************************************************)
TruthyName(o) == o # None /\ o[1] # ""

\* s.replace('image/', ''): the first occurrence is removed
RECURSIVE ReplaceImage(_)
ReplaceImage(s) ==
    IF s = <<>> THEN <<>>
    ELSE IF Head(s) = "image/" THEN Tail(s)
    ELSE <<Head(s)>> \o ReplaceImage(Tail(s))

\* s.split('.').pop(): what follows the last dot, all of s when it has none
RECURSIVE SplitPop(_)
SplitPop(s) ==
    IF \E i \in 1..Len(s) : s[i] = "."
    THEN SplitPop(Tail(s))
    ELSE s

\* line 34: source && source.mimetype && source.mimetype.replace(...); an
\* && chain yields its first falsy operand, so that an undefined source or
\* mimetype leaves type undefined and the mimetype '' leaves it ''
MimeType(src) ==
    IF src.kind # "file" \/ src.mimetype = None THEN None
    ELSE IF src.mimetype[1] = <<>> THEN Some(<<>>)
    ELSE Some(ReplaceImage(src.mimetype[1]))

\* lines 34-41: the value of "type" when it is tested on line 43
DetectType(src) ==
    IF src.kind = "string" THEN Some(SplitPop(src.str)) ELSE MimeType(src)

(***************************************************************************)
(* upload: what one task queues on image.batch() (lines 57-106).           *)
(***************************************************************************)
\* lines 60-61: c.top || 0, c.left || 0
NumOr0(o) == IF TruthyNum(o) THEN o[1] ELSE 0

\* lines 58-59: c.width || false, c.height || false
NumOrFalse(o) == IF TruthyNum(o) THEN Num(o[1]) ELSE False

ColorPad(c, cfg) ==
    IF TruthyName(c.colorPad) THEN c.colorPad[1]
    ELSE IF TruthyName(cfg.colorPad) THEN cfg.colorPad[1]
    ELSE "white"

AdaptTruthy(a) ==
    \/ a.kind = "obj"
    \/ a.kind = "bool" /\ a.v
    \/ a.kind = "num" /\ a.v # 0

\* lines 72-78, for a truthy c.adapt and the numbers width and height: the
\* last branch hands c.adapt itself over, a number or an object
ContainOp(c, cfg, width, height) ==
    LET a == c.adapt
        color == ColorPad(c, cfg)
    IN  IF a.kind = "obj" /\ a.width # 0 /\ a.height # 0
        THEN [op |-> "contain", width |-> Num(a.width),
              height |-> Num(a.height), color |-> color]
        ELSE IF a.kind = "bool"
        THEN [op |-> "contain", width |-> Num(Max(width, height)),
              height |-> Num(Max(width, height)), color |-> color]
        ELSE [op |-> "contain", width |-> a, height |-> a, color |-> color]

ResizeOp(dim) == [op |-> "resize", width |-> dim.width, height |-> dim.height]

\* lines 66-96: the resize or contain step
SizeOps(c, cfg, iw, ih) ==
    LET width == NumOrFalse(c.width)
        height == NumOrFalse(c.height)
    IN  IF ~(Truthy(width) \/ Truthy(height)) THEN <<>>
        ELSE IF Truthy(width) /\ Truthy(height)
        THEN IF TruthyBool(c.crop)
             THEN IF AdaptTruthy(c.adapt)
                  THEN <<ContainOp(c, cfg, width.v, height.v)>>
                  ELSE <<ResizeOp(getCropDimensions(iw, ih, width.v, height.v))>>
             ELSE <<ResizeOp(adaptDimensions(iw, ih, width.v, height.v))>>
        ELSE IF ~Truthy(height)
        THEN <<ResizeOp(getDimensionsWidthMax(iw, ih, width.v))>>
        ELSE <<ResizeOp(getDimensionsHeightMax(iw, ih, height.v))>>

\* the crop step outside "if (width || height)"
CropOpsUnguarded(c) ==
    LET width == NumOrFalse(c.width)
        height == NumOrFalse(c.height)
        crop_top == NumOr0(c.top)
        crop_left == NumOr0(c.left)
    IN  IF TruthyBool(c.crop)
        THEN IF crop_top > 0 \/ crop_left > 0
             THEN <<[op |-> "crop", left |-> crop_left, top |-> crop_top,
                     right |-> crop_left + ToNumber(width),
                     bottom |-> crop_top + ToNumber(height)]>>
             ELSE <<[op |-> "cropSize", width |-> width, height |-> height]>>
        ELSE <<>>

\* the crop step taking the offsets only when both are given
CropOpsBothOffsets(c) ==
    LET width == NumOrFalse(c.width)
        height == NumOrFalse(c.height)
        crop_top == NumOr0(c.top)
        crop_left == NumOr0(c.left)
    IN  IF (Truthy(width) \/ Truthy(height)) /\ TruthyBool(c.crop)
        THEN IF crop_top > 0 /\ crop_left > 0
             THEN <<[op |-> "crop", left |-> crop_left, top |-> crop_top,
                     right |-> crop_left + ToNumber(width),
                     bottom |-> crop_top + ToNumber(height)]>>
             ELSE <<[op |-> "cropSize", width |-> width, height |-> height]>>
        ELSE <<>>

\* lines 98-105: the crop step
CropOps(c) ==
    LET width == NumOrFalse(c.width)
        height == NumOrFalse(c.height)
        crop_top == NumOr0(c.top)
        crop_left == NumOr0(c.left)
    IN  IF (Truthy(width) \/ Truthy(height)) /\ TruthyBool(c.crop)
        THEN IF crop_top > 0 \/ crop_left > 0
             THEN <<[op |-> "crop", left |-> crop_left, top |-> crop_top,
                     right |-> crop_left + ToNumber(width),
                     bottom |-> crop_top + ToNumber(height)]>>
             ELSE <<[op |-> "cropSize", width |-> width, height |-> height]>>
        ELSE <<>>

TransformOps(c, cfg, iw, ih) == SizeOps(c, cfg, iw, ih) \o CropOps(c)

\* the size of the image when the crop a task has queued is applied: that
\* of the resize, or of the contain on two numbers, queued before it
Canvas(batch, iw, ih) ==
    IF batch = <<>> \/ batch[1].op \notin { "resize", "contain" }
    THEN [width |-> iw, height |-> ih]
    ELSE IF batch[1].op = "resize"
    THEN [width |-> batch[1].width, height |-> batch[1].height]
    ELSE [width |-> batch[1].width.v, height |-> batch[1].height.v]

\* 0 | n / 2: the half of n, cut towards zero
HalfTrunc(n) == IF n >= 0 THEN n \div 2 ELSE - ((- n) \div 2)

\* where a queued crop starts on a canvas: batch.crop(left, top, right,
\* bottom) starts at its offsets; batch.crop(width, height), the crop of the
\* comments "le crop est centre si omis" (line 23) and "crop centre ou non"
\* (line 98), is taken by lwip around the centre of the image, for a width
\* and a height that are numbers
CropOffsets(o, canvas) ==
    IF o.op = "crop"
    THEN [left |-> o.left, top |-> o.top]
    ELSE [left |-> HalfTrunc(canvas.width - o.width.v),
          top |-> HalfTrunc(canvas.height - o.height.v)]

(***************************************************************************)
(* upload: the filename of one task (lines 114-116) and its key (121).     *)
(***************************************************************************)
\* lodash.template(t)(c): "<%= name %>" is replaced by c.name
Compile(t, c) ==
    [i \in 1..Len(t) |-> IF t[i] = "<%= name %>" THEN c.name[1] ELSE t[i]]

DefaultFormat(cfg) == IF TruthyStr(cfg.format) THEN cfg.format[1] ELSE <<>>

\* line 115: c.omitExtension || config.omitExtension || false
OmitExt(c, cfg) == TruthyBool(c.omitExtension) \/ TruthyBool(cfg.omitExtension)

Filename(c, cfg, t) ==
    Compile(IF TruthyStr(c.format) THEN c.format[1] ELSE DefaultFormat(cfg), c)
        \o (IF OmitExt(c, cfg) THEN <<>> ELSE <<".">> \o t)

\* line 121: c.key || c.name, as a property name
ResultKey(c) ==
    IF TruthyName(c.key) THEN c.key[1]
    ELSE IF c.name = None THEN "undefined" ELSE c.name[1]

(***************************************************************************)
(* The inputs upload is called with.                                       *)
(***************************************************************************)
\* a source: undefined ("none"), a path ("string") or an uploaded file
\* ("file") with or without mimetype and buffer; iw and ih are the size of
\* the image lwip.open finds in it
Src(kind, mimetype, str, buffer, iw, ih) ==
    [kind |-> kind, mimetype |-> mimetype, str |-> str, buffer |-> buffer,
     iw |-> iw, ih |-> ih]

PngFile(iw, ih) == Src("file", Some(<<"image/", "png">>), <<>>, TRUE, iw, ih)

Sources ==
    { Src("none", None, <<>>, FALSE, 4, 3),               \* undefined
      Src("file", None, <<>>, TRUE, 4, 3),                \* no mimetype
      Src("file", Some(<<>>), <<>>, TRUE, 4, 3),          \* mimetype ''
      Src("file", Some(<<"image/">>), <<>>, TRUE, 4, 3),  \* mimetype 'image/'
      PngFile(4, 3),
      Src("file", Some(<<"image/", "png">>), <<>>, FALSE, 4, 3),  \* no buffer
      Src("string", None, <<"a", ".", "jpg">>, FALSE, 4, 3),      \* 'a.jpg'
      Src("string", None, <<"b", ".", "a", ".", "gif">>, FALSE, 4, 3),
      Src("string", None, <<"photo">>, FALSE, 4, 3),      \* no extension
      Src("string", None, <<"a", ".">>, FALSE, 4, 3),     \* 'a.'
      Src("string", None, <<>>, FALSE, 4, 3) }            \* ''

NoAdapt == [kind |-> "unset"]

Variant(key, name, width, height, crop) ==
    [key |-> key, name |-> name, format |-> None, width |-> width,
     height |-> height, top |-> None, left |-> None, crop |-> crop,
     adapt |-> NoAdapt, omitExtension |-> None, colorPad |-> None]

\* files without dimensions: one keyed by its name, one by its key; a list
\* may hold the same file twice
PlainVariants ==
    { Variant(None, Some("a"), None, None, None),
      Variant(Some("b"), Some("a"), None, None, None) }

NameTemplate == <<"img-", "<%= name %>">>

Config(format, omitExtension, kind, list) ==
    [format |-> format, omitExtension |-> omitExtension, colorPad |-> None,
     files |-> [kind |-> kind, list |-> list]]

SeqsUpTo(S, n) == UNION { [1..k -> S] : k \in 0..n }

\* batches of up to MaxVariants files, for the scheduling
BatchInputs ==
    { <<PngFile(4, 3), Config(Some(NameTemplate), None, "array", l)>> :
        l \in SeqsUpTo(PlainVariants, MaxVariants) }

\* every source against a missing, a malformed, an empty and a one-file list
ValidationInputs ==
    { <<s, Config(Some(NameTemplate), None, k[1], k[2])>> :
        s \in Sources,
        k \in { <<"absent", <<>>>>, <<"notArray", <<>>>>, <<"array", <<>>>>,
                <<"array", <<Variant(None, Some("a"), None, None, None)>>>> } }

OptBool == { None, Some(TRUE), Some(FALSE) }

\* one or two files with every setting of omitExtension and of the templates
NamingInputs ==
    { <<s, Config(f, o, "array", l)>> :
        s \in { PngFile(4, 3),
                Src("string", None, <<"a", ".", "jpg">>, FALSE, 4, 3) },
        f \in { None, Some(NameTemplate) },
        o \in OptBool,
        l \in SeqsUpTo(
               { [Variant(None, Some("a"), None, None, None)
                    EXCEPT !.omitExtension = vo, !.format = vf] :
                   vo \in OptBool, vf \in { None, Some(<<"<%= name %>", "-x">>) } },
               1) }

OptDim == { None } \cup { Some(n) : n \in 0..MaxDim }

Adapts ==
    { NoAdapt, [kind |-> "bool", v |-> TRUE], [kind |-> "num", v |-> 2],
      [kind |-> "obj", width |-> 2, height |-> 3],
      [kind |-> "obj", width |-> 0, height |-> 3] }

Offsets == { <<None, None>>, <<Some(1), None>>, <<Some(0), Some(2)>> }

\* one file with every setting of the dimensions, the crop and the offsets,
\* and a cropped one with every setting of the dimensions, the offsets and
\* adapt
GeometryInputs ==
    { <<PngFile(d[1], d[2]),
        Config(Some(NameTemplate), None, "array",
               <<[Variant(None, Some("a"), w, h, c)
                    EXCEPT !.top = o[1], !.left = o[2]]>>)>> :
        d \in { <<4, 3>>, <<3, 4>>, <<2, 2>> },
        w \in OptDim, h \in OptDim, c \in { None, Some(TRUE) }, o \in Offsets }
    \cup
    { <<PngFile(4, 3),
        Config(Some(NameTemplate), None, "array",
               <<[Variant(None, Some("a"), w, h, Some(TRUE))
                    EXCEPT !.top = o[1], !.left = o[2], !.adapt = a]>>)>> :
        w \in OptDim, h \in OptDim, o \in Offsets, a \in Adapts }

\* two files that declare the same key and are named differently
ClashInputs ==
    { <<PngFile(4, 3),
        Config(Some(NameTemplate), None, "array",
               <<Variant(None, Some("a"), None, None, None),
                 Variant(Some("a"), Some("c"), None, None, None)>>)>> }

Inputs ==
    BatchInputs \cup ValidationInputs \cup NamingInputs \cup GeometryInputs
        \cup ClashInputs

\* globalConfig.resizeLimit: unset, a number of tasks, or a number below 0
ResizeLimits == { None, Some(-1) } \cup { Some(n) : n \in 1..MaxLimit }

(***************************************************************************)
(* upload (lines 33-137) and async.parallelLimit.                          *)
(***************************************************************************)
Files == config.files.list
NumTasks == Len(pc)

\* line 131: globalConfig.resizeLimit || 8
DefaultLimit == 8
Limit ==
    IF TruthyNum(globalConfig.resizeLimit) THEN globalConfig.resizeLimit[1]
    ELSE DefaultLimit

Err(kind, task) == [kind |-> kind, task |-> task]

\* cb(err) and cb(null, images)
CbErr(e) == [err |-> Some(e), result |-> None]
CbOk(imgs) == [err |-> None, result |-> Some(imgs)]

\* the callback handed to async.parallelLimit (lines 131-136): async invokes
\* it with the first error or once every task has succeeded, and never a
\* second time (it is wrapped in once)
FinalCallback(call) == IF cbCalls = <<>> THEN <<call>> ELSE cbCalls

\* tasks started after an error as before it
ToStartAfterError(r, n, total, stop) == Max(0, Min(Limit - r, total - n))

\* tasks started whatever the limit
ToStartIgnoringLimit(r, n, total, stop) == IF stop THEN 0 ELSE total - n

\* tasks that async starts when its count of running tasks is r and n have
\* been taken from the list of total: it fills the limit, and starts none
\* once a task has reported an error
ToStart(r, n, total, stop) ==
    IF stop THEN 0 ELSE Max(0, Min(Limit - r, total - n))

\* async starting the next tasks and, again, those that have failed
StartedWithRetry(pcs, n, k) ==
    [i \in 1..Len(pcs) |->
        IF (i > n /\ i <= n + k)
             \/ pcs[i] \in { "decodeFailed", "encodeFailed", "storeFailed" }
        THEN "open" ELSE pcs[i]]

Started(pcs, n, k) ==
    [i \in 1..Len(pcs) |-> IF i > n /\ i <= n + k THEN "open" ELSE pcs[i]]

\* a step whose error is reported without leaving the callback chain
OnErrorFallThrough(step) ==
    CASE step = "open" -> "encode"
      [] step = "encode" -> "store"
      [] OTHER -> "done"

\* "if (err) { return callback(err); }" (lines 54-56, 110-112, 118-120): the
\* chain ends at the step that failed
OnError(step) ==
    CASE step = "open" -> "decodeFailed"
      [] step = "encode" -> "encodeFailed"
      [] OTHER -> "storeFailed"

\* the call a task makes on reaching a step: lwip.open (line 53),
\* batch.toBuffer (109), os.uploadFromBuffer (117), the write to images (121)
CallOf(step) ==
    CASE step = "open" -> "open"
      [] step = "encode" -> "toBuffer"
      [] step = "store" -> "uploadFromBuffer"
      [] OTHER -> "put"

\* the log once the tasks have moved from old to new
Logged(old, new, lg) ==
    [i \in 1..Len(new) |->
        IF new[i] \in { "open", "encode", "store", "done" }
             /\ (i > Len(old) \/ old[i] # new[i])
        THEN Append(lg[i], CallOf(new[i]))
        ELSE lg[i]]

\* line 46 with the isArray test left out
FilesInvalidAbsentOnly(cfg) == cfg.files.kind = "absent"

\* line 46: config.files === undefined || !lodash.isArray(config.files)
FilesInvalid(cfg) == cfg.files.kind # "array"

\* images with a task's entry as its only entry
PutAlone(imgs, k, v) == [x \in {k} |-> v]

\* line 121: images[k] = v
Put(imgs, k, v) == [x \in DOMAIN imgs \cup {k} |-> IF x = k THEN v ELSE imgs[x]]

\* line 51: new Buffer(source.buffer) throws for a file without buffer, in
\* the first turn of the loop over a list that is not empty
BufferThrows(src, cfg) ==
    src.kind = "file" /\ ~src.buffer /\ cfg.files.list # <<>>

\* upload is called: lines 34-48 validate, 50-130 build the tasks, 131 hands
\* them to async.parallelLimit, which starts the first ones at once; for an
\* empty list, and for a limit of 0 or less, it starts none and invokes the
\* final callback at once
Upload(src, cfg) ==
    /\ ~called
    /\ called' = TRUE
    /\ source' = src
    /\ config' = cfg
    /\ type' = DetectType(src)
    /\ UNCHANGED <<globalConfig, geo, images, errored, prev>>
    /\ IF ~TruthyStr(DetectType(src))
       THEN /\ cbCalls' = <<CbErr(Err("UnknownType", 0))>>
            /\ UNCHANGED <<pc, ops, fname, started, running, log, thrown>>
       ELSE IF FilesInvalid(cfg)
       THEN /\ cbCalls' = <<CbErr(Err("InvalidConfig", 0))>>
            /\ UNCHANGED <<pc, ops, fname, started, running, log, thrown>>
       ELSE IF BufferThrows(src, cfg)
       THEN /\ thrown' = Some("TypeError")
            /\ UNCHANGED <<pc, ops, fname, started, running, log, cbCalls>>
       ELSE LET total == Len(cfg.files.list)
                k == ToStart(0, 0, total, FALSE)
            IN  /\ pc' = Started([i \in 1..total |-> "idle"], 0, k)
                /\ ops' = [i \in 1..total |-> <<>>]
                /\ fname' = [i \in 1..total |-> None]
                /\ log' = Logged(<<>>, pc', [i \in 1..total |-> <<>>])
                /\ started' = k
                /\ running' = k
                /\ cbCalls' = IF total = 0 \/ Limit <= 0
                             THEN <<CbOk(images)>> ELSE <<>>
                /\ UNCHANGED thrown

\* a task invokes the callback async gave it (_eachOfLimit, which
\* parallelLimit runs the tasks with): running -= 1; with an error the final
\* callback is invoked and nothing is started, by this callback or by a
\* later one.  Without one the final callback is invoked when the list is
\* used up and nothing is running, and otherwise the next tasks are started
\* while fewer than the limit are running.
TaskCallback(pcs, err, imgs) ==
    LET k == ToStart(running - 1, started, NumTasks, errored \/ err # None)
    IN  /\ running' = running - 1 + k
        /\ started' = started + k
        /\ pc' = Started(pcs, started, k)
        /\ errored' = (errored \/ err # None)
        /\ images' = imgs
        /\ cbCalls' =
             IF err # None THEN FinalCallback(CbErr(err[1]))
             ELSE IF started + k >= NumTasks /\ running - 1 + k = 0
             THEN FinalCallback(CbOk(imgs))
             ELSE cbCalls

\* lwip.open calls back (lines 53-109)
OpenDone(i, failed) ==
    /\ called /\ i \in 1..NumTasks /\ pc[i] = "open"
    /\ UNCHANGED <<globalConfig, called, source, config, type, fname, geo, prev,
                   thrown>>
    /\ IF failed
       THEN /\ TaskCallback([pc EXCEPT ![i] = OnError("open")],
                            Some(Err("decode", i)), images)
            /\ UNCHANGED ops
       ELSE /\ ops' = [ops EXCEPT ![i] = TransformOps(Files[i], config,
                                                      source.iw, source.ih)]
            /\ pc' = [pc EXCEPT ![i] = "encode"]
            /\ UNCHANGED <<images, started, running, errored, cbCalls>>
    /\ log' = Logged(pc, pc', IF failed
                              THEN [log EXCEPT ![i] = Append(@, "decodeError")]
                              ELSE log)

\* batch.toBuffer calls back (lines 109-117)
ToBufferDone(i, failed) ==
    /\ called /\ i \in 1..NumTasks /\ pc[i] = "encode"
    /\ UNCHANGED <<globalConfig, called, source, config, type, ops, geo, prev,
                   thrown>>
    /\ IF failed
       THEN /\ TaskCallback([pc EXCEPT ![i] = OnError("encode")],
                            Some(Err("encode", i)), images)
            /\ UNCHANGED fname
       ELSE /\ fname' = [fname EXCEPT
                           ![i] = Some(Filename(Files[i], config, type[1]))]
            /\ pc' = [pc EXCEPT ![i] = "store"]
            /\ UNCHANGED <<images, started, running, errored, cbCalls>>
    /\ log' = Logged(pc, pc', IF failed
                              THEN [log EXCEPT ![i] = Append(@, "encodeError")]
                              ELSE log)

\* the paths the storage answers with: the filename in a container, or none
Paths(name) == { Some(<<"c/">> \o name), None }

\* globalConfig.staticUrl + path (line 122)
Url(path) ==
    <<globalConfig.staticUrl>> \o (IF path = None THEN <<"undefined">>
                                   ELSE path[1])

\* an entry whose filename carries the number of entries stored before it
EntryNumbered(i, path) ==
    LET name == fname[i][1]
                  \o <<"-", <<"0", "1", "2", "3", "4", "5">>[
                               Cardinality(DOMAIN images) + 1]>>
    IN  [url |-> Url(path), filename |-> name]

\* the entry a task adds to images (lines 121-124), path being the
\* storage's answer
Entry(i, path) == [url |-> Url(path), filename |-> fname[i][1]]

\* os.uploadFromBuffer calls back (lines 117-126)
StoreDone(i, failed) ==
    /\ called /\ i \in 1..NumTasks /\ pc[i] = "store"
    /\ UNCHANGED <<globalConfig, called, source, config, type, ops, fname, geo,
                   prev, thrown>>
    /\ IF failed
       THEN TaskCallback([pc EXCEPT ![i] = OnError("store")],
                         Some(Err("storage", i)), images)
       ELSE \E path \in Paths(fname[i][1]) :
               TaskCallback([pc EXCEPT ![i] = "done"], None,
                            Put(images, ResultKey(Files[i]), Entry(i, path)))
    /\ log' = Logged(pc, pc', IF failed
                              THEN [log EXCEPT ![i] = Append(@, "storageError")]
                              ELSE log)

NoGeo == [fn |-> "none", iw |-> 0, ih |-> 0, width |-> 0, height |-> 0,
          out |-> [width |-> 0, height |-> 0]]

Init ==
    /\ globalConfig \in { [resizeLimit |-> l, staticUrl |-> "http://static/"] :
                            l \in ResizeLimits }
    /\ called = FALSE
    /\ source = Src("none", None, <<>>, FALSE, 0, 0)
    /\ config = Config(None, None, "absent", <<>>)
    /\ type = None
    /\ pc = <<>>
    /\ ops = <<>>
    /\ fname = <<>>
    /\ images = <<>>
    /\ started = 0
    /\ running = 0
    /\ errored = FALSE
    /\ cbCalls = <<>>
    /\ thrown = None
    /\ log = <<>>
    /\ prev = None
    /\ geo = NoGeo

Next ==
    \/ \E in \in Inputs : Upload(in[1], in[2])
    \/ \E i \in 1..MaxVariants + 1, failed \in BOOLEAN : OpenDone(i, failed)
    \/ \E i \in 1..MaxVariants + 1, failed \in BOOLEAN : ToBufferDone(i, failed)
    \/ \E i \in 1..MaxVariants + 1, failed \in BOOLEAN : StoreDone(i, failed)

Spec == Init /\ [][Next]_vars

(***************************************************************************)
(* The planners called on their own, on every image size and target up to  *)
(* MaxDim.                                                                 *)
(***************************************************************************)
\* the image sizes up to MaxDim and one on which a double ratio rounds the
\* other way than the exact one, with half its width as a target
GeomSizes == ((1..MaxDim) \X (1..MaxDim)) \cup { <<18, 7>> }
GeomTargets == (1..MaxDim) \cup { 9 }

InitGeom ==
    /\ globalConfig = [resizeLimit |-> None, staticUrl |-> "http://static/"]
    /\ called = FALSE
    /\ source = Src("none", None, <<>>, FALSE, 0, 0)
    /\ config = Config(None, None, "absent", <<>>)
    /\ type = None
    /\ pc = <<>>
    /\ ops = <<>>
    /\ fname = <<>>
    /\ images = <<>>
    /\ started = 0
    /\ running = 0
    /\ errored = FALSE
    /\ cbCalls = <<>>
    /\ thrown = None
    /\ log = <<>>
    /\ prev = None
    /\ geo \in { [NoGeo EXCEPT !.iw = d[1], !.ih = d[2], !.width = w, !.height = h] :
                   d \in GeomSizes, w \in GeomTargets, h \in 1..MaxDim }

CallGetCropDimensions ==
    /\ geo.fn = "none"
    /\ geo' = [geo EXCEPT
                 !.fn = "getCropDimensions",
                 !.out = getCropDimensions(geo.iw, geo.ih, geo.width, geo.height)]
    /\ UNCHANGED uploadVars

CallAdaptDimensions ==
    /\ geo.fn = "none"
    /\ geo' = [geo EXCEPT
                 !.fn = "adaptDimensions",
                 !.out = adaptDimensions(geo.iw, geo.ih, geo.width, geo.height)]
    /\ UNCHANGED uploadVars

CallGetDimensionsWidthMax ==
    /\ geo.fn = "none"
    /\ geo' = [geo EXCEPT
                 !.fn = "getDimensionsWidthMax",
                 !.out = getDimensionsWidthMax(geo.iw, geo.ih, geo.width)]
    /\ UNCHANGED uploadVars

CallGetDimensionsHeightMax ==
    /\ geo.fn = "none"
    /\ geo' = [geo EXCEPT
                 !.fn = "getDimensionsHeightMax",
                 !.out = getDimensionsHeightMax(geo.iw, geo.ih, geo.height)]
    /\ UNCHANGED uploadVars

NextGeom ==
    \/ CallGetCropDimensions
    \/ CallAdaptDimensions
    \/ CallGetDimensionsWidthMax
    \/ CallGetDimensionsHeightMax

SpecGeom == InitGeom /\ [][NextGeom]_vars

\* the planners on every image size and target from 0 to MaxDim, and on an
\* image whose double ratio, times the target height, falls below a half
InitGeomAny ==
    /\ globalConfig = [resizeLimit |-> None, staticUrl |-> "http://static/"]
    /\ called = FALSE
    /\ source = Src("none", None, <<>>, FALSE, 0, 0)
    /\ config = Config(None, None, "absent", <<>>)
    /\ type = None
    /\ pc = <<>>
    /\ ops = <<>>
    /\ fname = <<>>
    /\ images = <<>>
    /\ started = 0
    /\ running = 0
    /\ errored = FALSE
    /\ cbCalls = <<>>
    /\ thrown = None
    /\ log = <<>>
    /\ prev = None
    /\ geo \in { [NoGeo EXCEPT !.iw = iw, !.ih = ih, !.width = w, !.height = h] :
                   iw \in 0..MaxDim, ih \in 0..MaxDim,
                   w \in 0..MaxDim, h \in 0..MaxDim }
               \cup { [NoGeo EXCEPT !.iw = 1, !.ih = 98, !.width = 0,
                                    !.height = 49] }

SpecGeomAny == InitGeomAny /\ [][NextGeom]_vars

(***************************************************************************)
(* upload called a second time with the source and the configuration of a  *)
(* first call that has succeeded.  Every call of upload has its own type,  *)
(* tasks and images (lines 34-37), so the second call starts from the      *)
(* locals' initial values, whatever is left of the first.                  *)
(***************************************************************************)
\* the first call has handed its result to cb; the caller keeps the
\* filenames of it
Return ==
    /\ prev = None
    /\ Len(cbCalls) = 1 /\ cbCalls[1].err = None
    /\ prev' = Some([k \in DOMAIN cbCalls[1].result[1] |->
                       [filename |-> cbCalls[1].result[1][k].filename]])
    /\ called' = FALSE
    /\ type' = None
    /\ pc' = <<>>
    /\ ops' = <<>>
    /\ fname' = <<>>
    /\ images' = <<>>
    /\ started' = 0
    /\ running' = 0
    /\ errored' = FALSE
    /\ cbCalls' = <<>>
    /\ log' = <<>>
    /\ UNCHANGED <<globalConfig, source, config, geo, thrown>>

UploadFirst == prev = None /\ \E in \in Inputs : Upload(in[1], in[2])

UploadAgain == prev # None /\ Upload(source, config)

NextTwice ==
    \/ UploadFirst
    \/ Return
    \/ UploadAgain
    \/ \E i \in 1..MaxVariants + 1, failed \in BOOLEAN : OpenDone(i, failed)
    \/ \E i \in 1..MaxVariants + 1, failed \in BOOLEAN : ToBufferDone(i, failed)
    \/ \E i \in 1..MaxVariants + 1, failed \in BOOLEAN : StoreDone(i, failed)

SpecTwice == Init /\ [][NextTwice]_vars

(***************************************************************************)
(* upload when every call to the codec and to the storage that has been    *)
(* made is answered.                                                       *)
(***************************************************************************)
Answered ==
    \A i \in 1..MaxVariants + 1 :
        /\ WF_vars(\E failed \in BOOLEAN : OpenDone(i, failed))
        /\ WF_vars(\E failed \in BOOLEAN : ToBufferDone(i, failed))
        /\ WF_vars(\E failed \in BOOLEAN : StoreDone(i, failed))

SpecLive == Spec /\ Answered

(***************************************************************************)
(* The claims.                                                             *)
(***************************************************************************)
Tasks == 1..NumTasks
InFlightStates == { "open", "encode", "store" }
FailedStates == { "decodeFailed", "encodeFailed", "storeFailed" }
InFlight == { i \in Tasks : pc[i] \in InFlightStates }
FailedTasks == { i \in Tasks : pc[i] \in FailedStates }

\* the error a task reports when it ends in state st
ErrorOf(st, i) ==
    Err(CASE st = "decodeFailed" -> "decode"
          [] st = "encodeFailed" -> "encode"
          [] OTHER -> "storage", i)

\* C1: the tasks that have been started and have not yet invoked their
\* callback are never more than the limit, globalConfig.resizeLimit or 8
\* when it is unset, and none under a limit below 0.
C1_BoundedConcurrency ==
    Cardinality(InFlight) <=
        (IF globalConfig.resizeLimit = None THEN 8
         ELSE Max(0, globalConfig.resizeLimit[1]))

\* the limit is reached while a file still waits for its turn
C1_Witness ==
    /\ globalConfig.resizeLimit # None
    /\ Cardinality(InFlight) = globalConfig.resizeLimit[1]
    /\ \E i \in Tasks : pc[i] = "idle"
    /\ \E i \in Tasks : pc[i] = "done"

\* C2: in the step in which the first task fails, cb is invoked with that
\* task's error whatever the other tasks are doing; from then on the
\* invocation stands and no task that was not started is started.
C2_FirstError ==
    [][ \A i \in 1..Len(pc') :
          pc'[i] \in FailedStates =>
            /\ IF FailedTasks = {}
               THEN cbCalls' = <<CbErr(ErrorOf(pc'[i], i))>>
               ELSE cbCalls' = cbCalls /\ Len(cbCalls) = 1
            /\ \A j \in Tasks : pc[j] = "idle" => pc'[j] = "idle" ]_vars

\* of three files under a limit of two the second has failed, cb holds its
\* error, the first has been stored since, and the third has not been started
C2_Witness ==
    /\ NumTasks = 3 /\ started = 2
    /\ pc[2] \in FailedStates
    /\ cbCalls = <<CbErr(ErrorOf(pc[2], 2))>>
    /\ pc[1] = "done" /\ pc[3] = "idle"

\* C3: once upload is called and every codec and storage call is answered,
\* cb is invoked, and it is never invoked twice: the one invocation carries
\* either an error or the result map, and stays the only one.
C3_ExactlyOnce ==
    /\ [](Len(cbCalls) <= 1)
    /\ [](\A n \in 1..Len(cbCalls) :
            (cbCalls[n].err = None) # (cbCalls[n].result = None))
    /\ [][cbCalls # <<>> => cbCalls' = cbCalls]_vars
    /\ (called ~> Len(cbCalls) = 1)

\* the key a file declares: its key, or its name when it has no key
DeclaredKey(c) == IF c.key # None THEN c.key[1] ELSE c.name[1]
DeclaredKeys == { DeclaredKey(Files[i]) : i \in Tasks }
Succeeded == Len(cbCalls) = 1 /\ cbCalls[1].err = None
Result == cbCalls[1].result[1]
AllTasksSucceeded == Succeeded /\ \A i \in Tasks : pc[i] = "done"

\* C4, as stated: when every task has succeeded the map has the declared keys as its keys and
\* as many entries as there are files.
C4_Original ==
    AllTasksSucceeded =>
        /\ DOMAIN Result = DeclaredKeys
        /\ Cardinality(DOMAIN Result) = NumTasks

\* C4, amended: when every task has succeeded the map has the declared keys as its keys, each
\* with the filename of a file declaring that key, and as many entries as
\* there are distinct declared keys: as many as files when no two files
\* declare the same key.
C4_KeySet ==
    AllTasksSucceeded =>
        /\ DOMAIN Result = DeclaredKeys
        /\ \A k \in DOMAIN Result :
             \E i \in Tasks : /\ DeclaredKey(Files[i]) = k
                              /\ fname[i] = Some(Result[k].filename)
        /\ (\A i, j \in Tasks :
              DeclaredKey(Files[i]) = DeclaredKey(Files[j]) => i = j)
             => Cardinality(DOMAIN Result) = NumTasks

\* files with distinct keys, declared by key and by name, have succeeded
C4_Witness ==
    /\ AllTasksSucceeded
    /\ NumTasks >= 2
    /\ Cardinality(DOMAIN Result) = NumTasks
    /\ \E i \in Tasks : Files[i].key # None
    /\ \E i \in Tasks : Files[i].key = None

NoFiles == config.files.kind # "array" \/ config.files.list = <<>>

\* C5, as stated, for a source whose type is detected: without files, or
\* with an empty list, upload fails with the invalid-configuration error and
\* runs no task.
C5_Original ==
    (called /\ TruthyStr(type) /\ NoFiles) =>
        /\ cbCalls = <<CbErr(Err("InvalidConfig", 0))>>
        /\ pc = <<>>

\* C5, amended: when the source's type is detected and config.files is
\* absent or not an array, upload fails with the invalid-configuration error;
\* when it is an empty array, upload succeeds with an empty map.  No task
\* runs in either case.
C5_FilesValidation ==
    (called /\ TruthyStr(type) /\ NoFiles) =>
        /\ pc = <<>> /\ ops = <<>> /\ fname = <<>>
        /\ IF config.files.kind = "array"
           THEN cbCalls = <<CbOk(<<>>)>>
           ELSE cbCalls = <<CbErr(Err("InvalidConfig", 0))>>

\* upload was called with a typed source and something that is no array
C5_Witness ==
    /\ called /\ TruthyStr(type)
    /\ config.files.kind = "notArray"
    /\ cbCalls = <<CbErr(Err("InvalidConfig", 0))>>

\* a file object without mimetype, or a string without a dot
Undetectable(src) ==
    \/ src.kind = "file" /\ src.mimetype = None
    \/ src.kind = "string" /\ \A i \in 1..Len(src.str) : src.str[i] # "."

\* C6: a source whose type cannot be detected makes upload fail with the
\* unknown-type error, and no task is scheduled.
C6_UnknownType ==
    (called /\ Undetectable(source)) =>
        /\ cbCalls = <<CbErr(Err("UnknownType", 0))>>
        /\ pc = <<>>

\* C7: adaptDimensions returns no width above the image's and no height
\* above the image's; with a relatively wider target of the image's height
\* it returns the natural size.
C7_NoUpscale ==
    geo.fn = "adaptDimensions" =>
        /\ geo.out.width <= geo.iw
        /\ geo.out.height <= geo.ih
        /\ (geo.width * geo.ih > geo.iw * geo.height /\ geo.ih = geo.height)
             => geo.out = [width |-> geo.iw, height |-> geo.ih]

\* C8: getCropDimensions returns at least the target on both axes, with the
\* target's height when the image is relatively wider than the target and
\* the target's width otherwise, equal ratios included.
C8_Cover ==
    geo.fn = "getCropDimensions" =>
        /\ geo.out.width >= geo.width
        /\ geo.out.height >= geo.height
        /\ IF geo.iw * geo.height > geo.width * geo.ih
           THEN geo.out.height = geo.height
           ELSE geo.out.width = geo.width

\* the image is relatively wider than the target and overflows it sideways
C8_Witness ==
    /\ geo.fn = "getCropDimensions"
    /\ geo.iw * geo.height > geo.width * geo.ih
    /\ geo.out.width > geo.width
    /\ geo.out.height = geo.height

\* C9: getDimensionsWidthMax and getDimensionsHeightMax return no more than
\* the natural size on either axis: the natural size when the scaled image
\* would be larger than the image, and the given axis at its maximum
\* otherwise.
C9_SingleAxisMax ==
    /\ geo.fn = "getDimensionsWidthMax" =>
         /\ geo.out.width <= geo.iw /\ geo.out.height <= geo.ih
         /\ IF geo.width > geo.iw
            THEN geo.out = [width |-> geo.iw, height |-> geo.ih]
            ELSE geo.out.width = geo.width
    /\ geo.fn = "getDimensionsHeightMax" =>
         /\ geo.out.width <= geo.iw /\ geo.out.height <= geo.ih
         /\ IF geo.height > geo.ih
            THEN geo.out = [width |-> geo.iw, height |-> geo.ih]
            ELSE geo.out.height = geo.height

\* a width above the image's has been asked for
C9_Witness ==
    /\ geo.fn = "getDimensionsWidthMax"
    /\ geo.width > geo.iw
    /\ geo.out = [width |-> geo.iw, height |-> geo.ih]

\* (c.omitExtension ?? config.omitExtension)
OmitExtNullish(c, cfg) ==
    IF c.omitExtension # None THEN c.omitExtension[1]
    ELSE IF cfg.omitExtension # None THEN cfg.omitExtension[1]
    ELSE FALSE

\* C10: the filename is the compiled template, followed by a dot and the
\* type unless the file's omitExtension or, when the file sets none, the
\* batch's omitExtension is true.
C10_Extension ==
    \A i \in Tasks :
        fname[i] # None =>
            LET c == Files[i]
                t == IF TruthyStr(c.format) THEN c.format[1]
                     ELSE DefaultFormat(config)
            IN  fname[i][1] =
                  Compile(t, c) \o (IF OmitExtNullish(c, config) THEN <<>>
                                    ELSE <<".">> \o type[1])

\* the filename a file is given, from the source and the configuration alone
NameOf(c) == Filename(c, config, type[1])
BothSucceeded == prev # None /\ Succeeded

\* C11, as stated: two calls of upload with the same source and the same
\* configuration return maps in which every key carries the same filename.
C11_Original ==
    BothSucceeded =>
        /\ DOMAIN Result = DOMAIN prev[1]
        /\ \A k \in DOMAIN Result : Result[k].filename = prev[1][k].filename

\* C11, amended: the two maps have the same keys, and every key whose files
\* are all given one filename carries that filename in both; a key declared
\* by files with different filenames carries the filename of whichever of
\* them was stored last in that call.
C11_SameFilenames ==
    BothSucceeded =>
        /\ DOMAIN Result = DOMAIN prev[1]
        /\ \A k \in DOMAIN Result :
             /\ \E i \in Tasks : /\ DeclaredKey(Files[i]) = k
                                 /\ Result[k].filename = NameOf(Files[i])
             /\ (\A i, j \in Tasks :
                   DeclaredKey(Files[i]) = DeclaredKey(Files[j])
                     => NameOf(Files[i]) = NameOf(Files[j]))
                  => Result[k].filename = prev[1][k].filename

\* both calls have succeeded on two files or more with different filenames
C11_Witness ==
    /\ BothSucceeded
    /\ NumTasks >= 2
    /\ Cardinality(DOMAIN Result) >= 2
    /\ \A k \in DOMAIN Result : Result[k].filename = prev[1][k].filename

\* C12: every geometry a planner returns for a positive image size and
\* positive targets has a width and a height of at least 1.
C12_Positive ==
    geo.fn # "none" => geo.out.width >= 1 /\ geo.out.height >= 1

\* the arguments of the planner that has been called
PlannerArgs ==
    CASE geo.fn = "getDimensionsWidthMax" -> { geo.iw, geo.ih, geo.width }
      [] geo.fn = "getDimensionsHeightMax" -> { geo.iw, geo.ih, geo.height }
      [] OTHER -> { geo.iw, geo.ih, geo.width, geo.height }

\* C14: a planner called with an image dimension, a maximum or a target axis
\* of zero does not return a geometry.
C14_ZeroRejected == ~(geo.fn # "none" /\ 0 \in PlannerArgs)

\* the tasks whose image has been opened, and the crops they have queued
Opened == { i \in Tasks : pc[i] \notin { "idle", "open", "decodeFailed" } }
OpsOf(i, kinds) == { n \in 1..Len(ops[i]) : ops[i][n].op \in kinds }
CanvasOf(i) == Canvas(ops[i], source.iw, source.ih)

\* the task has queued no contain, or one on two numbers
NumericCanvas(i) ==
    ops[i] = <<>> \/ ops[i][1].op # "contain" \/ ops[i][1].width.kind = "num"

\* C13: a crop at explicit offsets stays inside the resized image: the
\* offsets are not negative, left + width is at most the resized width and
\* top + height at most the resized height.
C13_CropInside ==
    \A i \in Opened :
        \A n \in OpsOf(i, { "crop" }) :
            LET c == Files[i]
                o == ops[i][n]
            IN  (TruthyNum(c.width) /\ TruthyNum(c.height) /\ NumericCanvas(i)) =>
                /\ o.left >= 0 /\ o.top >= 0
                /\ o.left + c.width[1] <= CanvasOf(i).width
                /\ o.top + c.height[1] <= CanvasOf(i).height

\* what a task may have logged: its calls in the order of the callback
\* chain, each made once the one before has succeeded, and nothing after an
\* error
TaskLogs ==
    { <<>>,
      <<"open">>,
      <<"open", "decodeError">>,
      <<"open", "toBuffer">>,
      <<"open", "toBuffer", "encodeError">>,
      <<"open", "toBuffer", "uploadFromBuffer">>,
      <<"open", "toBuffer", "uploadFromBuffer", "storageError">>,
      <<"open", "toBuffer", "uploadFromBuffer", "put">> }

Count(lg, e) == Cardinality({ n \in 1..Len(lg) : lg[n] = e })

\* C15: a task decodes, transforms, encodes, names and uploads in that
\* order, each step only after the one before has succeeded; it writes its
\* entry only after its upload has succeeded, so every entry of the map was
\* written by a task that has succeeded, and no failed task has written one.
C15_StepOrder ==
    /\ \A i \in Tasks :
         /\ log[i] \in TaskLogs
         /\ (ops[i] # <<>>) => Count(log[i], "toBuffer") = 1
         /\ (fname[i] # None) <=> Count(log[i], "uploadFromBuffer") = 1
         /\ pc[i] \in FailedStates => Count(log[i], "put") = 0
    /\ \A k \in DOMAIN images :
         \E i \in Tasks :
            /\ pc[i] = "done" /\ Count(log[i], "put") = 1
            /\ ResultKey(Files[i]) = k
            /\ fname[i] = Some(images[k].filename)

\* one task has failed to decode, one to encode, and one has stored its image
C15_Witness ==
    /\ \E i \in Tasks : pc[i] = "decodeFailed"
    /\ \E i \in Tasks : pc[i] = "encodeFailed"
    /\ \E i \in Tasks : pc[i] = "done"
    /\ images # <<>>

\* C16: a task is started at most once, invokes the storage upload at most
\* once and writes the result map at most once, also after another task has
\* failed.
C16_NoRetry ==
    \A i \in Tasks :
        /\ Count(log[i], "open") <= 1
        /\ Count(log[i], "uploadFromBuffer") <= 1
        /\ Count(log[i], "put") <= 1

\* a task has failed and another, still running then, has stored its image
C16_Witness ==
    /\ errored
    /\ \E i \in Tasks : pc[i] = "storeFailed"
    /\ \E i \in Tasks : pc[i] = "done" /\ Count(log[i], "put") = 1
    /\ InFlight = {}

\* C17: a file with neither width nor height has nothing queued on its
\* batch, whatever its crop and adapt, and goes from decode to encode.
C17_PassThrough ==
    \A i \in Opened :
        (~TruthyNum(Files[i].width) /\ ~TruthyNum(Files[i].height)) =>
            /\ ops[i] = <<>>
            /\ Len(log[i]) >= 2 /\ log[i][1] = "open" /\ log[i][2] = "toBuffer"

\* a file with crop and adapt, and no dimensions, has been decoded
C17_Witness ==
    \E i \in Opened :
        /\ Files[i].width = None /\ Files[i].height = None
        /\ TruthyBool(Files[i].crop) /\ AdaptTruthy(Files[i].adapt)
        /\ TruthyNum(Files[i].top)
        /\ ops[i] = <<>>

CropKinds == { "crop", "cropSize" }
ExplicitOffsets(c) == NumOr0(c.top) > 0 \/ NumOr0(c.left) > 0

\* a file with a width and a height whose canvas is known when it is cropped
Sized(i) ==
    TruthyNum(Files[i].width) /\ TruthyNum(Files[i].height) /\ NumericCanvas(i)

\* C18, as stated: with a top or a left above 0 the crop of a file with a
\* width and a height starts at the two offsets, an unset one being 0;
\* otherwise it starts at the origin.
C18_Original ==
    \A i \in Opened :
        \A n \in OpsOf(i, CropKinds) :
            Sized(i) =>
            CropOffsets(ops[i][n], CanvasOf(i)) =
                IF ExplicitOffsets(Files[i])
                THEN [left |-> NumOr0(Files[i].left), top |-> NumOr0(Files[i].top)]
                ELSE [left |-> 0, top |-> 0]

\* C18, amended: with a top or a left above 0 the crop starts at the two
\* offsets, an unset one being 0; otherwise the code queues
\* crop(width, height) without offsets, and for a file with a width and a
\* height the region of that size is the one around the centre of the canvas.
C18_CropOffsets ==
    \A i \in Opened :
        \A n \in OpsOf(i, CropKinds) :
            LET c == Files[i]
                o == ops[i][n]
            IN  IF ExplicitOffsets(c)
                THEN /\ o.op = "crop"
                     /\ o.left = NumOr0(c.left) /\ o.top = NumOr0(c.top)
                ELSE /\ o = [op |-> "cropSize", width |-> NumOrFalse(c.width),
                             height |-> NumOrFalse(c.height)]
                     /\ Sized(i) =>
                          /\ 2 * CropOffsets(o, CanvasOf(i)).left + o.width.v
                               \in { CanvasOf(i).width - 1, CanvasOf(i).width,
                                     CanvasOf(i).width + 1 }
                          /\ 2 * CropOffsets(o, CanvasOf(i)).top + o.height.v
                               \in { CanvasOf(i).height - 1, CanvasOf(i).height,
                                     CanvasOf(i).height + 1 }

\* a crop without offsets on a canvas two pixels wider than the crop
C18_Witness ==
    \E i \in Opened :
        \E n \in OpsOf(i, CropKinds) :
            /\ ~ExplicitOffsets(Files[i])
            /\ Sized(i)
            /\ CanvasOf(i).width >= ops[i][n].width.v + 2
            /\ CropOffsets(ops[i][n], CanvasOf(i)).left >= 1

=============================================================================
